---- MODULE Spec2Model ----
(***************************************************************************)
(* The three-stage resume pipeline of src/main.py (Streamlit page "Upload  *)
(* & Process"): process_uploaded_files (parse), standardize_resumes        *)
(* (standardize) and upload_to_mongodb (store), together with the session  *)
(* state, the staging directories under temp_dir and the page code that    *)
(* enables the three buttons.                                              *)
(*                                                                         *)
(* A handler is run item by item: pc is the position of the running        *)
(* handler ("idle" between script runs) and idx the loop index.  No other  *)
(* handler can start while pc # "idle": Streamlit runs one script at a     *)
(* time for a session.                                                     *)
(*                                                                         *)
(* ResumeParser, ResumeStandardizer and ResumeDBManager are imported from  *)
(* modules that are not part of src/; what they return is a                *)
(* nondeterministic choice, and the few operators that stand for their     *)
(* bodies follow spec.md.                                                  *)
(***************************************************************************)
EXTENDS Integers, Sequences, FiniteSets, TLC

\* ------------------------------------------------------------------ bounds
MaxBatch == 1      \* longest list of files held by the uploader
MaxClock == 5      \* number of script runs (uploader changes and stage triggers)

\* ------------------------------------------------------------- data values
\* An uploaded file is known by its name; Path(name).stem / .suffix split it.
FileName(stem, suffix) == [stem |-> stem, suffix |-> suffix]

Names ==
    { FileName("a", ".pdf"), FileName("a", ".docx"),
      FileName("b", ".PDF"), FileName("b", ".txt") }

Stems == { n.stem : n \in Names }

\* str.lower() on the suffixes that occur
Lower(s) == IF s = ".PDF" THEN ".pdf" ELSE s

\* ResumeParser.SUPPORTED_EXTENSIONS
SUPPORTED_EXTENSIONS == { ".pdf", ".docx" }

\* Texts are sequences of characters; " " is the only whitespace used.
Contents == { << >>, << " " >>, << " ", "t" >> }

RECURSIVE LStrip(_)
LStrip(s) == IF s # <<>> /\ Head(s) = " " THEN LStrip(Tail(s)) ELSE s

RECURSIVE RStrip(_)
RStrip(s) ==
    IF s # <<>> /\ s[Len(s)] = " " THEN RStrip(SubSeq(s, 1, Len(s) - 1)) ELSE s

\* str.strip()
Strip(s) == RStrip(LStrip(s))

\* Raw LLM responses: "#" is a code-fence marker, "p" prose, "1"/"2" the
\* e-mail carried by the JSON object.
RawResponses ==
    { << "#", "{", "1", "}", "#" >>,       \* fenced JSON
      << "p", "{", "2", "}", "p" >>,       \* JSON surrounded by prose
      << "{", "{", "1", "}" >> }           \* unbalanced braces

Positions(s, c) == { i \in 1..Len(s) : s[i] = c }

Min(S) == CHOOSE x \in S : \A y \in S : x <= y
Max(S) == CHOOSE x \in S : \A y \in S : x >= y

\* ResumeStandardizer.clean_llm_response: drop the fence markers and keep
\* the text from the first "{" to the last "}".
clean_llm_response(raw) ==
    LET t == SelectSeq(raw, LAMBDA c : c # "#")
        o == Positions(t, "{")
        c == Positions(t, "}")
    IN  IF o # {} /\ c # {} /\ Min(o) < Max(c)
        THEN SubSeq(t, Min(o), Max(c))
        ELSE t

\* json.loads on the cleaned text: an object { } or { e }, nothing else.
JsonValid(s) ==
    /\ Len(s) \in {2, 3}
    /\ s[1] = "{"
    /\ s[Len(s)] = "}"
    /\ Len(s) = 3 => s[2] \in {"1", "2"}

JsonEmail(s) == IF Len(s) = 3 THEN s[2] ELSE "none"

\* ------------------------------------------------------------------- state
VARIABLES
    resume_uploader,        \* the files held by st.file_uploader
    uploaded_file_names,    \* st.session_state.uploaded_file_names
    processing_complete,    \* st.session_state flags
    standardizing_complete,
    db_upload_complete,
    processed_files,        \* st.session_state lists (paths, by stem)
    standardized_files,
    uploaded_files,
    temp_files,             \* copies written to temp_dir
    parsed_dir,             \* parsed_dir/<stem>.json
    standardized_dir,       \* standardized_dir/<stem>.json
    raw_logs,               \* standardized_dir/<stem>_raw.md
    db,                     \* the MongoDB collection, by upsert key
    clock,                  \* datetime.now(), at the resolution of a script run
    pc,                     \* position of the running handler
    idx,                    \* loop index i + 1
    files_to_process,       \* line 68: the list the parse loop walks
    files_to_standardize,   \* line 129: the list the standardize loop walks
    run,                    \* how the latest run of each stage ended
    run_at,                 \* the clock when the latest run of each stage began
    parse_out,              \* per item of the latest parse run: what happened
    std_out,                \* per item of the latest standardize run
    store_out,              \* per item of the latest store run
    processed_src,          \* for each entry of processed_files: its input index
    standardized_src,       \* for each entry of standardized_files: its item index
    llm_calls,              \* item indexes for which call_azure_llm was called
    parser_calls,           \* item indexes for which parse_resume was called
    inflight,               \* LLM calls dispatched and not yet returned
    page,                   \* the page chosen in the sidebar
    all_resumes_results,    \* st.session_state.all_resumes_results
    results                 \* what "All Resumes" displays: << >> or << list >>

vars ==
    << resume_uploader, uploaded_file_names, processing_complete,
       standardizing_complete, db_upload_complete, processed_files,
       standardized_files, uploaded_files, temp_files, parsed_dir,
       standardized_dir, raw_logs, db, clock, pc, idx, files_to_process,
       files_to_standardize, run, run_at, parse_out, std_out, store_out,
       processed_src, standardized_src, llm_calls,
       parser_calls, inflight, page, all_resumes_results, results >>

session == << processing_complete, standardizing_complete, db_upload_complete,
              processed_files, standardized_files, uploaded_files >>
staging == << temp_files, parsed_dir, standardized_dir, raw_logs >>
loops == << files_to_process, files_to_standardize, run_at >>
parse_ghost == << parse_out, processed_src, parser_calls >>
std_ghost == << std_out, standardized_src, llm_calls, inflight >>
database_page == << page, all_resumes_results, results >>

Stages == { "parse", "standardize", "store" }

\* A directory is a function from the stems present to the file contents.
Put(dir, k, v) == [ s \in DOMAIN dir \cup {k} |-> IF s = k THEN v ELSE dir[s] ]

\* sorted(list of names): the list as a bag
Sorted(s) == [ n \in { s[i] : i \in DOMAIN s } |-> Cardinality({ i \in DOMAIN s : s[i] = n }) ]

Injective(s) == \A i, j \in DOMAIN s : s[i] = s[j] => i = j

\* What the uploader can hold: every list of at most MaxBatch distinct
\* files, and three longer lists: an unsupported file with two files that
\* parse, and the same stem twice.
Scenarios ==
    { << FileName("b", ".txt"), FileName("a", ".pdf"), FileName("b", ".PDF") >>,
      << FileName("a", ".pdf"), FileName("a", ".docx") >>,
      << FileName("b", ".PDF"), FileName("a", ".docx") >> }

Batches ==
    { s \in UNION { [1..n -> Names] : n \in 0..MaxBatch } : Injective(s) }
        \cup Scenarios

Init ==
    /\ resume_uploader = << >>
    /\ uploaded_file_names = << >>
    /\ processing_complete = FALSE
    /\ standardizing_complete = FALSE
    /\ db_upload_complete = FALSE
    /\ processed_files = << >>
    /\ standardized_files = << >>
    /\ uploaded_files = << >>
    /\ temp_files = {}
    /\ parsed_dir = << >>
    /\ standardized_dir = << >>
    /\ raw_logs = << >>
    /\ db = << >>
    /\ clock = 0
    /\ pc = "idle"
    /\ idx = 0
    /\ files_to_process = << >>
    /\ files_to_standardize = << >>
    /\ run = [ s \in Stages |-> "never" ]
    /\ run_at = [ s \in Stages |-> 0 ]
    /\ parse_out = << >>
    /\ std_out = << >>
    /\ store_out = << >>
    /\ processed_src = << >>
    /\ standardized_src = << >>
    /\ llm_calls = {}
    /\ parser_calls = {}
    /\ inflight = 0
    /\ page = "Upload & Process"
    /\ all_resumes_results = {}
    /\ results = << >>

\* ------------------------------------------------- page "Upload & Process"
NoRun == [ s \in Stages |-> "never" ]

\* Lines 238-249, run by the script whenever the uploader's value changes:
\* a non-empty list whose sorted names differ from the recorded ones resets
\* the session.
FilesChanged(new) == new # << >> /\ Sorted(new) # Sorted(uploaded_file_names)

ChangeUpload ==
    /\ pc = "idle"
    /\ page = "Upload & Process"
    /\ clock < MaxClock
    /\ clock' = clock + 1
    /\ \E new \in Batches :
        /\ new # resume_uploader
        /\ resume_uploader' = new
        /\ IF FilesChanged(new)
           THEN /\ uploaded_file_names' = new
                /\ processing_complete' = FALSE
                /\ standardizing_complete' = FALSE
                /\ db_upload_complete' = FALSE
                /\ processed_files' = << >>
                /\ standardized_files' = << >>
                /\ uploaded_files' = << >>
                /\ processed_src' = << >>
                /\ standardized_src' = << >>
                /\ run' = NoRun
                /\ run_at' = [ s \in Stages |-> 0 ]
                /\ parse_out' = << >>
                /\ std_out' = << >>
                /\ store_out' = << >>
                /\ llm_calls' = {}
                /\ parser_calls' = {}
           ELSE UNCHANGED << uploaded_file_names, session, processed_src,
                             standardized_src, run, run_at, parse_out,
                             std_out, store_out, llm_calls, parser_calls >>
    /\ UNCHANGED << staging, db, pc, idx, files_to_process,
                    files_to_standardize, inflight,
                    database_page >>

\* ------------------------------------------------ process_uploaded_files
\* Line 254: the button is disabled while the uploader is empty.
ParseEnabled == resume_uploader # << >>

\* Lines 56-68.
ClickParse ==
    /\ pc = "idle"
    /\ page = "Upload & Process"
    /\ ParseEnabled
    /\ clock < MaxClock
    /\ clock' = clock + 1
    /\ processing_complete' = FALSE
    /\ standardizing_complete' = FALSE
    /\ db_upload_complete' = FALSE
    /\ processed_files' = << >>
    /\ files_to_process' = resume_uploader
    /\ idx' = 1
    /\ pc' = "parse"
    /\ run' = [ run EXCEPT !["parse"] = "running" ]
    /\ run_at' = [ run_at EXCEPT !["parse"] = clock + 1 ]
    /\ parse_out' = << >>
    /\ processed_src' = << >>
    /\ parser_calls' = {}
    /\ UNCHANGED << resume_uploader, uploaded_file_names, standardized_files,
                    uploaded_files, staging, db, files_to_standardize,
                    std_ghost, store_out,
                    database_page >>

InParseLoop == pc = "parse" /\ idx <= Len(files_to_process)

\* Lines 74-76: the upload is copied to temp_dir before anything is checked.
WriteTempCopy(f) == temp_files' = temp_files \cup {f}

\* The extension test with its sense inverted.
Unsupported_Inverted(f) == Lower(f.suffix) \in SUPPORTED_EXTENSIONS

\* Lines 78, 81.
Unsupported(f) == Lower(f.suffix) \notin SUPPORTED_EXTENSIONS

\* Line 79: ResumeParser() is built for every item, outside the try block;
\* what it raises leaves process_uploaded_files.
ParserInitRaises ==
    /\ InParseLoop
    /\ WriteTempCopy(files_to_process[idx])
    /\ parse_out' = Append(parse_out, "init_error")
    /\ run' = [ run EXCEPT !["parse"] = "raised" ]
    /\ pc' = "idle"
    /\ UNCHANGED << resume_uploader, uploaded_file_names, session, parsed_dir,
                    standardized_dir, raw_logs, db, clock, idx, loops,
                    processed_src, parser_calls, std_ghost, store_out,
                    database_page >>

\* Lines 81-83.
ParseUnsupported ==
    /\ InParseLoop
    /\ WriteTempCopy(files_to_process[idx])
    /\ Unsupported(files_to_process[idx])
    /\ parse_out' = Append(parse_out, "unsupported")
    /\ idx' = idx + 1
    /\ UNCHANGED << resume_uploader, uploaded_file_names, session, parsed_dir,
                    standardized_dir, raw_logs, db, clock, pc, loops, run,
                    processed_src, parser_calls, std_ghost, store_out,
                    database_page >>

\* The ParsedRecord written at lines 88-93.
ParsedRecord(content, f) ==
    [ content |-> content, timestamp |-> clock, original_filename |-> f ]

\* Lines 86-96: parse_resume returned a (truthy) dict.
ParseOk ==
    /\ InParseLoop
    /\ WriteTempCopy(files_to_process[idx])
    /\ ~Unsupported(files_to_process[idx])
    /\ \E content \in Contents :
        parsed_dir' = Put(parsed_dir, files_to_process[idx].stem,
                          ParsedRecord(content, files_to_process[idx]))
    /\ processed_files' = Append(processed_files, files_to_process[idx].stem)
    /\ processed_src' = Append(processed_src, idx)
    /\ parser_calls' = parser_calls \cup {idx}
    /\ parse_out' = Append(parse_out, "ok")
    /\ idx' = idx + 1
    /\ UNCHANGED << resume_uploader, uploaded_file_names, processing_complete,
                    standardizing_complete, db_upload_complete,
                    standardized_files, uploaded_files, standardized_dir,
                    raw_logs, db, clock, pc, loops, run, std_ghost, store_out,
                    database_page >>

\* The append of line 95 moved out of the "if parsed_resume" block: a failed
\* item is listed with the path it would have been staged at.
ParseFails_Appends ==
    /\ InParseLoop
    /\ WriteTempCopy(files_to_process[idx])
    /\ ~Unsupported(files_to_process[idx])
    /\ \E why \in { "no_content", "error" } :
        parse_out' = Append(parse_out, why)
    /\ processed_files' = Append(processed_files, files_to_process[idx].stem)
    /\ processed_src' = Append(processed_src, idx)
    /\ parser_calls' = parser_calls \cup {idx}
    /\ idx' = idx + 1
    /\ UNCHANGED << resume_uploader, uploaded_file_names, processing_complete,
                    standardizing_complete, db_upload_complete,
                    standardized_files, uploaded_files, parsed_dir,
                    standardized_dir, raw_logs, db, clock, pc, loops, run,
                    std_ghost, store_out,
                    database_page >>

\* parse_resume called outside the try block: what it raises leaves the
\* stage function.
ParseFails_Escapes ==
    /\ InParseLoop
    /\ WriteTempCopy(files_to_process[idx])
    /\ ~Unsupported(files_to_process[idx])
    /\ \E why \in { "no_content", "error" } :
        /\ parse_out' = Append(parse_out, why)
        /\ IF why = "error"
           THEN /\ pc' = "idle"
                /\ idx' = idx
                /\ run' = [ run EXCEPT !["parse"] = "raised" ]
           ELSE /\ pc' = pc
                /\ idx' = idx + 1
                /\ run' = run
    /\ parser_calls' = parser_calls \cup {idx}
    /\ UNCHANGED << resume_uploader, uploaded_file_names, session, parsed_dir,
                    standardized_dir, raw_logs, db, clock, loops,
                    processed_src, std_ghost, store_out,
                    database_page >>

\* Lines 86-87, 97-98 (parse_resume returned None or an empty dict) and
\* lines 99-100 (parse_resume raised).
ParseFails ==
    /\ InParseLoop
    /\ WriteTempCopy(files_to_process[idx])
    /\ ~Unsupported(files_to_process[idx])
    /\ \E why \in { "no_content", "error" } :
        parse_out' = Append(parse_out, why)
    /\ parser_calls' = parser_calls \cup {idx}
    /\ idx' = idx + 1
    /\ UNCHANGED << resume_uploader, uploaded_file_names, session, parsed_dir,
                    standardized_dir, raw_logs, db, clock, pc, loops, run,
                    processed_src, std_ghost, store_out,
                    database_page >>

\* Lines 104-105.
ParseFinish ==
    /\ pc = "parse"
    /\ idx > Len(files_to_process)
    /\ processing_complete' = TRUE
    /\ run' = [ run EXCEPT !["parse"] = "done" ]
    /\ pc' = "idle"
    /\ UNCHANGED << resume_uploader, uploaded_file_names,
                    standardizing_complete, db_upload_complete,
                    processed_files, standardized_files, uploaded_files,
                    staging, db, clock, idx, loops, parse_ghost, std_ghost,
                    store_out,
                    database_page >>

\* --------------------------------------------------- standardize_resumes
\* The button of line 259 without its "disabled" argument.
StandardizeEnabled_Always == TRUE

\* Line 259: the button is disabled until parsing has completed.
StandardizeEnabled == processing_complete

\* Lines 109-129, ResumeStandardizer() built.
ClickStandardize ==
    /\ pc = "idle"
    /\ page = "Upload & Process"
    /\ StandardizeEnabled
    /\ clock < MaxClock
    /\ clock' = clock + 1
    /\ standardizing_complete' = FALSE
    /\ standardized_files' = << >>
    /\ files_to_standardize' = processed_files
    /\ idx' = 1
    /\ pc' = "standardize"
    /\ run' = [ run EXCEPT !["standardize"] = "running" ]
    /\ run_at' = [ run_at EXCEPT !["standardize"] = clock + 1 ]
    /\ std_out' = << >>
    /\ standardized_src' = << >>
    /\ llm_calls' = {}
    /\ UNCHANGED << resume_uploader, uploaded_file_names, processing_complete,
                    db_upload_complete, processed_files, uploaded_files,
                    staging, db, files_to_process, parse_ghost, store_out,
                    inflight,
                    database_page >>

\* Lines 109-110, 120: ResumeStandardizer() raised something other than
\* ValueError; the handler at line 121 does not match and the exception
\* leaves standardize_resumes.
StandardizerInitRaises ==
    /\ pc = "idle"
    /\ page = "Upload & Process"
    /\ StandardizeEnabled
    /\ clock < MaxClock
    /\ clock' = clock + 1
    /\ standardizing_complete' = FALSE
    /\ standardized_files' = << >>
    /\ run' = [ run EXCEPT !["standardize"] = "raised" ]
    /\ run_at' = [ run_at EXCEPT !["standardize"] = clock + 1 ]
    /\ std_out' = << >>
    /\ standardized_src' = << >>
    /\ llm_calls' = {}
    /\ UNCHANGED << resume_uploader, uploaded_file_names, processing_complete,
                    db_upload_complete, processed_files, uploaded_files,
                    staging, db, pc, idx, files_to_process,
                    files_to_standardize, parse_ghost, store_out,
                    inflight,
                    database_page >>

\* Lines 109-110, 119-123: ResumeStandardizer() raised ValueError.
StandardizerInitFails ==
    /\ pc = "idle"
    /\ page = "Upload & Process"
    /\ StandardizeEnabled
    /\ clock < MaxClock
    /\ clock' = clock + 1
    /\ standardizing_complete' = FALSE
    /\ standardized_files' = << >>
    /\ run' = [ run EXCEPT !["standardize"] = "init_error" ]
    /\ run_at' = [ run_at EXCEPT !["standardize"] = clock + 1 ]
    /\ std_out' = << >>
    /\ standardized_src' = << >>
    /\ llm_calls' = {}
    /\ UNCHANGED << resume_uploader, uploaded_file_names, processing_complete,
                    db_upload_complete, processed_files, uploaded_files,
                    staging, db, pc, idx, files_to_process,
                    files_to_standardize, parse_ghost, store_out,
                    inflight,
                    database_page >>

InStdLoop == pc = "standardize" /\ idx <= Len(files_to_standardize)

\* The cache test dropped: every item is standardized afresh.
OutputExists_Never(stem) == FALSE

\* Lines 135, 137: output_path.exists()
OutputExists(stem) == stem \in DOMAIN standardized_dir

\* Lines 147, 150: not content.strip()
EmptyContent(stem) == Strip(parsed_dir[stem].content) = << >>

\* The cached branch continuing without the append of line 138.
StdCached_Skips ==
    /\ InStdLoop
    /\ OutputExists(files_to_standardize[idx])
    /\ std_out' = Append(std_out, "cached")
    /\ idx' = idx + 1
    /\ UNCHANGED << resume_uploader, uploaded_file_names, session, staging,
                    db, clock, pc, loops, run, parse_ghost, store_out,
                    standardized_src, llm_calls, inflight,
                    database_page >>

\* Lines 137-141.
StdCached ==
    /\ InStdLoop
    /\ OutputExists(files_to_standardize[idx])
    /\ standardized_files' =
          Append(standardized_files, files_to_standardize[idx])
    /\ standardized_src' = Append(standardized_src, idx)
    /\ std_out' = Append(std_out, "cached")
    /\ idx' = idx + 1
    /\ UNCHANGED << resume_uploader, uploaded_file_names, processing_complete,
                    standardizing_complete, db_upload_complete,
                    processed_files, uploaded_files, staging, db, clock, pc,
                    loops, run, parse_ghost, store_out, llm_calls, inflight,
                    database_page >>

\* Lines 143-152.
StdEmpty ==
    /\ InStdLoop
    /\ ~OutputExists(files_to_standardize[idx])
    /\ EmptyContent(files_to_standardize[idx])
    /\ std_out' = Append(std_out, "empty")
    /\ idx' = idx + 1
    /\ UNCHANGED << resume_uploader, uploaded_file_names, session, staging,
                    db, clock, pc, loops, run, parse_ghost, store_out,
                    standardized_src, llm_calls, inflight,
                    database_page >>

\* Lines 154-155: the prompt is built and call_azure_llm awaited.
StdCallLLM ==
    /\ InStdLoop
    /\ ~OutputExists(files_to_standardize[idx])
    /\ ~EmptyContent(files_to_standardize[idx])
    /\ llm_calls' = llm_calls \cup {idx}
    /\ inflight' = inflight + 1
    /\ pc' = "await_llm"
    /\ UNCHANGED << resume_uploader, uploaded_file_names, session, staging,
                    db, clock, idx, loops, run, parse_ghost, store_out,
                    std_out, standardized_src,
                    database_page >>

\* Lines 155, 176-177: call_azure_llm raised.
StdLLMError ==
    /\ pc = "await_llm"
    /\ inflight' = inflight - 1
    /\ std_out' = Append(std_out, "llm_error")
    /\ idx' = idx + 1
    /\ pc' = "standardize"
    /\ UNCHANGED << resume_uploader, uploaded_file_names, session, staging,
                    db, clock, loops, run, parse_ghost, store_out,
                    standardized_src, llm_calls,
                    database_page >>

\* Lines 158-160: the raw response is logged before it is cleaned.
WriteRawLog(stem, raw) == raw_logs' = Put(raw_logs, stem, raw)

\* json.loads accepting whatever the cleaning returns.
ParsesAsJson_Always(raw) == TRUE

\* Lines 162-163 succeed: json.loads returns an object.
ParsesAsJson(raw) == JsonValid(clean_llm_response(raw))

\* The CanonicalRecord written at lines 166-172.
CanonicalRecord(raw, stem) ==
    [ json |-> clean_llm_response(raw),
      timestamp |-> clock,
      source_file |-> stem,
      original_filename |-> parsed_dir[stem].original_filename ]

\* Lines 155-175: a response that parses.
StdOk ==
    /\ pc = "await_llm"
    /\ \E raw \in RawResponses :
        /\ ParsesAsJson(raw)
        /\ WriteRawLog(files_to_standardize[idx], raw)
        /\ standardized_dir' =
              Put(standardized_dir, files_to_standardize[idx],
                  CanonicalRecord(raw, files_to_standardize[idx]))
    /\ standardized_files' =
          Append(standardized_files, files_to_standardize[idx])
    /\ standardized_src' = Append(standardized_src, idx)
    /\ inflight' = inflight - 1
    /\ std_out' = Append(std_out, "ok")
    /\ idx' = idx + 1
    /\ pc' = "standardize"
    /\ UNCHANGED << resume_uploader, uploaded_file_names, processing_complete,
                    standardizing_complete, db_upload_complete,
                    processed_files, uploaded_files, temp_files, parsed_dir,
                    db, clock, loops, run, parse_ghost, store_out, llm_calls,
                    database_page >>

\* The error path falling through to the bookkeeping of the success path.
StdMalformed_Appends ==
    /\ pc = "await_llm"
    /\ \E raw \in RawResponses :
        /\ ~ParsesAsJson(raw)
        /\ WriteRawLog(files_to_standardize[idx], raw)
    /\ standardized_files' =
          Append(standardized_files, files_to_standardize[idx])
    /\ standardized_src' = Append(standardized_src, idx)
    /\ inflight' = inflight - 1
    /\ std_out' = Append(std_out, "malformed")
    /\ idx' = idx + 1
    /\ pc' = "standardize"
    /\ UNCHANGED << resume_uploader, uploaded_file_names, processing_complete,
                    standardizing_complete, db_upload_complete,
                    processed_files, uploaded_files, temp_files, parsed_dir,
                    standardized_dir, db, clock, loops, run, parse_ghost,
                    store_out, llm_calls,
                    database_page >>

\* Lines 155-163, 176-177: json.loads raised on the cleaned response.
StdMalformed ==
    /\ pc = "await_llm"
    /\ \E raw \in RawResponses :
        /\ ~ParsesAsJson(raw)
        /\ WriteRawLog(files_to_standardize[idx], raw)
    /\ inflight' = inflight - 1
    /\ std_out' = Append(std_out, "malformed")
    /\ idx' = idx + 1
    /\ pc' = "standardize"
    /\ UNCHANGED << resume_uploader, uploaded_file_names, session, temp_files,
                    parsed_dir, standardized_dir, db, clock, loops, run,
                    parse_ghost, store_out, standardized_src, llm_calls,
                    database_page >>

\* Lines 182-183.
StdFinish ==
    /\ pc = "standardize"
    /\ idx > Len(files_to_standardize)
    /\ standardizing_complete' = TRUE
    /\ run' = [ run EXCEPT !["standardize"] = "done" ]
    /\ pc' = "idle"
    /\ UNCHANGED << resume_uploader, uploaded_file_names, processing_complete,
                    db_upload_complete, processed_files, standardized_files,
                    uploaded_files, staging, db, clock, idx, loops,
                    parse_ghost, std_ghost, store_out,
                    database_page >>

\* ----------------------------------------------------- upload_to_mongodb
\* Line 264: the button is disabled until standardizing has completed.
UploadEnabled == standardizing_complete

\* Lines 187-200, ResumeDBManager() built.
ClickUpload ==
    /\ pc = "idle"
    /\ page = "Upload & Process"
    /\ UploadEnabled
    /\ clock < MaxClock
    /\ clock' = clock + 1
    /\ db_upload_complete' = FALSE
    /\ idx' = 1
    /\ pc' = "store"
    /\ run' = [ run EXCEPT !["store"] = "running" ]
    /\ run_at' = [ run_at EXCEPT !["store"] = clock + 1 ]
    /\ store_out' = << >>
    /\ UNCHANGED << resume_uploader, uploaded_file_names, processing_complete,
                    standardizing_complete, processed_files,
                    standardized_files, uploaded_files, staging, db,
                    files_to_process, files_to_standardize,
                    parse_ghost, std_ghost,
                    database_page >>

\* Lines 187, 193-197: ResumeDBManager() raised.
DBManagerInitFails ==
    /\ pc = "idle"
    /\ page = "Upload & Process"
    /\ UploadEnabled
    /\ clock < MaxClock
    /\ clock' = clock + 1
    /\ db_upload_complete' = FALSE
    /\ run' = [ run EXCEPT !["store"] = "init_error" ]
    /\ run_at' = [ run_at EXCEPT !["store"] = clock + 1 ]
    /\ store_out' = << >>
    /\ UNCHANGED << resume_uploader, uploaded_file_names, processing_complete,
                    standardizing_complete, processed_files,
                    standardized_files, uploaded_files, staging, db, pc, idx,
                    files_to_process, files_to_standardize, parse_ghost,
                    std_ghost,
                    database_page >>

InStoreLoop == pc = "store" /\ idx <= Len(standardized_files)

\* ResumeDBManager's upsert key: the e-mail, else name + phone.
UpsertKey(doc) ==
    IF JsonEmail(doc.json) # "none" THEN JsonEmail(doc.json) ELSE "name+phone"

\* ResumeDBManager.insert_or_update_resume
insert_or_update_resume(doc) == db' = Put(db, UpsertKey(doc), doc)

\* Lines 206-207: open() finds the staged file.
Staged(stem) == stem \in DOMAIN standardized_dir

\* Lines 205-212.
StoreOk ==
    /\ InStoreLoop
    /\ Staged(standardized_files[idx])
    /\ insert_or_update_resume(standardized_dir[standardized_files[idx]])
    /\ uploaded_files' = Append(uploaded_files, standardized_files[idx])
    /\ store_out' = Append(store_out, "ok")
    /\ idx' = idx + 1
    /\ UNCHANGED << resume_uploader, uploaded_file_names, processing_complete,
                    standardizing_complete, db_upload_complete,
                    processed_files, standardized_files, staging, clock, pc,
                    loops, run, parse_ghost, std_ghost,
                    database_page >>

\* A failed upsert undoing the items stored before it.
StoreError_RollsBack ==
    /\ InStoreLoop
    /\ store_out' =
          Append(store_out,
                 IF Staged(standardized_files[idx]) THEN "error" ELSE "missing")
    /\ db' = << >>
    /\ idx' = idx + 1
    /\ UNCHANGED << resume_uploader, uploaded_file_names, session, staging,
                    clock, pc, loops, run, parse_ghost, std_ghost,
                    database_page >>

\* Lines 205-210, 213-214: open() or insert_or_update_resume raised.
StoreError ==
    /\ InStoreLoop
    /\ store_out' =
          Append(store_out,
                 IF Staged(standardized_files[idx]) THEN "error" ELSE "missing")
    /\ idx' = idx + 1
    /\ UNCHANGED << resume_uploader, uploaded_file_names, session, staging,
                    db, clock, pc, loops, run, parse_ghost, std_ghost,
                    database_page >>

\* Lines 219-220.
StoreFinish ==
    /\ pc = "store"
    /\ idx > Len(standardized_files)
    /\ db_upload_complete' = TRUE
    /\ run' = [ run EXCEPT !["store"] = "done" ]
    /\ pc' = "idle"
    /\ UNCHANGED << resume_uploader, uploaded_file_names, processing_complete,
                    standardizing_complete, processed_files,
                    standardized_files, uploaded_files, staging, db, clock,
                    idx, loops, parse_ghost, std_ghost, store_out,
                    database_page >>

\* ------------------------------------------- page "Database Management"
\* Line 26: the pages of the sidebar.
Pages == { "Upload & Process", "Database Management" }

\* Everything the Database Management page leaves alone.
pipeline ==
    << uploaded_file_names, session, staging, db, clock, pc, idx, loops, run,
       parse_ghost, std_ghost, store_out >>

\* ResumeDBManager.find({}): every document of the collection.
find(collection) == { collection[k] : k \in DOMAIN collection }

\* Lines 342-354, query type "All Resumes": the list is fetched only while
\* the session holds none (an empty list counts as none), and what the
\* session holds is what is displayed.
AllResumes(clicked) ==
    IF clicked \/ all_resumes_results # {}
    THEN /\ all_resumes_results' =
              IF all_resumes_results = {} THEN find(db)
              ELSE all_resumes_results
         /\ results' = << all_resumes_results' >>
    ELSE /\ all_resumes_results' = all_resumes_results
         /\ results' = << >>

\* Lines 334-335, 441-442: the page under try/except; when ResumeDBManager()
\* raises, only the error is shown.
DatabasePage(clicked) ==
    \E connected \in BOOLEAN :
        IF connected
        THEN AllResumes(clicked)
        ELSE /\ all_resumes_results' = all_resumes_results
             /\ results' = << >>

\* Line 26: the other page is chosen in the sidebar and the script runs for
\* it.  Leaving "Upload & Process" un-renders the uploader, which may or
\* may not keep its files.
SelectPage ==
    /\ pc = "idle"
    /\ \E p \in Pages \ { page } :
        /\ page' = p
        /\ IF p = "Database Management"
           THEN /\ DatabasePage(FALSE)
                /\ resume_uploader' \in { resume_uploader, << >> }
           ELSE /\ all_resumes_results' = all_resumes_results
                /\ results' = << >>
                /\ resume_uploader' = resume_uploader
    /\ UNCHANGED pipeline

\* Line 347: "Fetch All Resumes" pressed.
FetchAllResumes ==
    /\ pc = "idle"
    /\ page = "Database Management"
    /\ DatabasePage(TRUE)
    /\ UNCHANGED << resume_uploader, page, pipeline >>

\* ----------------------------------------------------------- specification
Next ==
    \/ ChangeUpload
    \/ ClickParse
    \/ ParserInitRaises
    \/ ParseUnsupported
    \/ ParseOk
    \/ ParseFails
    \/ ParseFinish
    \/ ClickStandardize
    \/ StandardizerInitFails
    \/ StandardizerInitRaises
    \/ StdCached
    \/ StdEmpty
    \/ StdCallLLM
    \/ StdLLMError
    \/ StdOk
    \/ StdMalformed
    \/ StdFinish
    \/ ClickUpload
    \/ DBManagerInitFails
    \/ StoreOk
    \/ StoreError
    \/ StoreFinish

Spec == Init /\ [][Next]_vars

\* The session on both pages: Spec is the session that stays on "Upload &
\* Process", which the Database Management page does not write to.
NextPages ==
    \/ Next
    \/ SelectPage
    \/ FetchAllResumes

SpecPages == Init /\ [][NextPages]_vars

\* ------------------------------------------------------------------ claims
Range(s) == { s[i] : i \in DOMAIN s }

UnsupportedExt(f) == Lower(f.suffix) \notin { ".pdf", ".docx" }

\* The bookkeeping of the parse run describes the session list: entry k of
\* processed_files is the staged path of input processed_src[k].
ProcessedSrcOk ==
    /\ Len(processed_src) = Len(processed_files)
    /\ \A k \in DOMAIN processed_src :
        /\ processed_src[k] \in DOMAIN parse_out
        /\ processed_files[k] = files_to_process[processed_src[k]].stem

\* C1: an input whose extension is outside the supported set is never the
\* source of an entry of processed_files, whatever the staging directories
\* hold, and a parse stage that has returned has reported it as unsupported.
C1_UnsupportedNeverParsed ==
    /\ ProcessedSrcOk
    /\ \A k \in DOMAIN processed_src :
        ~UnsupportedExt(files_to_process[processed_src[k]])
    /\ \A i \in DOMAIN parse_out :
        UnsupportedExt(files_to_process[i]) =>
            /\ i \notin parser_calls
            /\ parse_out[i] \in { "unsupported", "init_error" }
    /\ run["parse"] = "done" =>
        \A i \in DOMAIN files_to_process :
            UnsupportedExt(files_to_process[i]) =>
                i \in DOMAIN parse_out /\ parse_out[i] = "unsupported"

\* C1 witness: a completed parse stage has skipped an unsupported input while
\* the parsed staging directory and processed_files hold its stem (from
\* another input of the batch).
C1_Witness ==
    /\ pc = "idle"
    /\ processing_complete
    /\ \E i \in DOMAIN files_to_process :
        /\ UnsupportedExt(files_to_process[i])
        /\ parse_out[i] = "unsupported"
        /\ files_to_process[i].stem \in DOMAIN parsed_dir
        /\ files_to_process[i].stem \in Range(processed_files)

\* While a standardize run is under way, and afterwards for as long as
\* standardizing_complete stands, parsed_dir is what that run read.
StdRunCurrent ==
    pc \in { "standardize", "await_llm" } \/ standardizing_complete

Blank(content) == Strip(content) = << >>

\* C2 (as claimed): every parsed record with empty or whitespace-only content
\* fails standardization as empty, has no LLM call issued for it and is not
\* added to standardized_files, also when a standardized artifact with its
\* stem already exists.
C2_EmptyContentFails ==
    StdRunCurrent =>
        \A k \in DOMAIN std_out :
            Blank(parsed_dir[files_to_standardize[k]].content) =>
                /\ std_out[k] = "empty"
                /\ k \notin llm_calls
                /\ k \notin Range(standardized_src)

\* C3: when the standardized artifact of the item at hand is already staged,
\* the step makes no LLM call, leaves the artifact and the raw log as they
\* are (timestamp included) and appends the staged path to
\* standardized_files.
C3_CachedStep ==
    (InStdLoop /\ files_to_standardize[idx] \in DOMAIN standardized_dir) =>
        /\ llm_calls' = llm_calls
        /\ inflight' = inflight
        /\ pc' = "standardize"
        /\ standardized_dir' = standardized_dir
        /\ raw_logs' = raw_logs
        /\ standardized_files' =
              Append(standardized_files, files_to_standardize[idx])

C3_Idempotent == [][C3_CachedStep]_vars

\* C3 witness: a standardize run has completed in which an item was served
\* from an artifact written by an earlier run, for the same parsed record.
C3_Witness ==
    /\ pc = "idle"
    /\ standardizing_complete
    /\ \E k \in DOMAIN std_out :
        LET stem == files_to_standardize[k] IN
        /\ std_out[k] = "cached"
        /\ k \notin llm_calls
        /\ standardized_files[k] = stem
        /\ standardized_dir[stem].timestamp < clock
        /\ parsed_dir[stem].timestamp < standardized_dir[stem].timestamp

\* The three stages have run to completion, in order, over the batch at hand.
AllStagesDone ==
    /\ pc = "idle"
    /\ \A s \in Stages : run[s] = "done"
    /\ run_at["parse"] < run_at["standardize"]
    /\ run_at["standardize"] < run_at["store"]

ValidJson(raw) == JsonValid(clean_llm_response(raw))

\* Input B of the batch was parsed, the LLM was called for it and the raw
\* response logged for it does (valid) or does not (~valid) parse as JSON.
LLMAnswered(i, valid) ==
    \E k \in llm_calls :
        /\ k \in DOMAIN processed_src
        /\ processed_src[k] = i
        /\ files_to_process[i].stem \in DOMAIN raw_logs
        /\ ValidJson(raw_logs[files_to_process[i].stem]) = valid

\* The scenario of C4, with A, B, C the positions of the three files.
C4_Scenario(A, B, C) ==
    /\ AllStagesDone
    /\ Len(files_to_process) = 3
    /\ { A, B, C } = 1..3
    /\ UnsupportedExt(files_to_process[A])
    /\ ~UnsupportedExt(files_to_process[B])
    /\ ~UnsupportedExt(files_to_process[C])
    /\ files_to_process[B].stem # files_to_process[C].stem
    /\ \A i \in DOMAIN parse_out : parse_out[i] \notin { "no_content", "error" }
    /\ LLMAnswered(B, FALSE)
    /\ LLMAnswered(C, TRUE)
    /\ \A j \in DOMAIN store_out : store_out[j] # "error"

\* The outcome C4 states for the scenario.
C4_Outcome(A, B, C) ==
    /\ Range(processed_src) = { B, C }
    /\ Range(processed_files) =
          { files_to_process[B].stem, files_to_process[C].stem }
    /\ Len(processed_files) = 2
    /\ parse_out[A] = "unsupported"
    /\ standardized_files = << files_to_process[C].stem >>
    /\ \A k \in DOMAIN std_out :
          (std_out[k] \notin { "ok", "cached" }) <=> (processed_src[k] = B)
    /\ Range(uploaded_files) = { files_to_process[C].stem }
    /\ store_out = << "ok" >>

\* C4: for a batch of three files, A of an unsupported type, B parsed but
\* answered by the LLM with invalid JSON, C succeeding everywhere, Parse then
\* Standardize then Store give parse succeeded {B, C} and failed {A},
\* standardize succeeded {C} and failed {B}, store succeeded {C}, failed {}.
C4_EndToEnd ==
    \A A, B, C \in 1..3 : C4_Scenario(A, B, C) => C4_Outcome(A, B, C)

\* C4 witness: the scenario has been run to the end of the store stage.
C4_Witness ==
    \E A, B, C \in 1..3 : C4_Scenario(A, B, C) /\ C4_Outcome(A, B, C)

\* Entry j of standardized_files is the staged path of item
\* standardized_src[j] of the standardize run that listed it.
StandardizedSrcOk ==
    /\ Len(standardized_src) = Len(standardized_files)
    /\ \A j \in DOMAIN standardized_src :
        /\ standardized_src[j] \in DOMAIN std_out
        /\ standardized_src[j] \in DOMAIN files_to_standardize
        /\ standardized_files[j] = files_to_standardize[standardized_src[j]]

\* C5: failure is sticky.  Every entry of processed_files comes from an input
\* the latest parse run parsed successfully; a standardize run walks exactly
\* the entries of processed_files; every entry of standardized_files comes
\* from an item the latest standardize run standardized (or found staged);
\* the store loop is handed the entries of standardized_files and nothing
\* else, so an item that failed a stage is not a candidate for the next.
C5_FailureSticky ==
    /\ ProcessedSrcOk
    /\ \A k \in DOMAIN processed_src : parse_out[processed_src[k]] = "ok"
    /\ pc \in { "standardize", "await_llm" } =>
          /\ files_to_standardize = processed_files
          /\ Len(std_out) <= Len(files_to_standardize)
    /\ StandardizedSrcOk
    /\ \A j \in DOMAIN standardized_src :
          std_out[standardized_src[j]] \in { "ok", "cached" }
    /\ pc = "store" =>
          /\ Len(store_out) = idx - 1
          /\ Len(store_out) <= Len(standardized_files)
    /\ \A k \in DOMAIN std_out :
          std_out[k] \notin { "ok", "cached" } =>
              k \notin Range(standardized_src)

\* C5 witness: the store stage has run over a batch in which one input failed
\* Parse and another item failed Standardize, and stored the one item left.
C5_Witness ==
    /\ AllStagesDone
    /\ \E i \in DOMAIN parse_out : parse_out[i] # "ok"
    /\ \E k \in DOMAIN std_out : std_out[k] \in { "malformed", "llm_error" }
    /\ Len(processed_files) = 2
    /\ Len(standardized_files) = 1
    /\ store_out = << "ok" >>

\* A stage is running, or its completion flag stands, only on the completed
\* run of the stage before it over the files recorded for the session.
C6_Ordering ==
    /\ pc \in { "standardize", "await_llm" } =>
          processing_complete /\ files_to_standardize = processed_files
    /\ pc = "store" => standardizing_complete
    /\ processing_complete =>
          /\ run["parse"] = "done"
          /\ Sorted(files_to_process) = Sorted(uploaded_file_names)
    /\ standardizing_complete =>
          /\ processing_complete
          /\ run["standardize"] = "done"
          /\ run_at["parse"] < run_at["standardize"]
          /\ files_to_standardize = processed_files

NoStageComplete ==
    /\ ~processing_complete
    /\ ~standardizing_complete
    /\ ~db_upload_complete

\* C6 (as claimed): stage ordering, and every change of the set of uploaded
\* files resets all stage completion.
C6_AnyChangeResets ==
    [][ Range(resume_uploader') # Range(resume_uploader) => NoStageComplete' ]_vars

C6_AsClaimed == []C6_Ordering /\ C6_AnyChangeResets

\* The step of lines 238-249 that finds a non-empty list of files whose
\* sorted names differ from the recorded ones.
C6_ResetStep ==
    ( /\ resume_uploader' # resume_uploader
      /\ resume_uploader' # << >>
      /\ Sorted(resume_uploader') # Sorted(uploaded_file_names) ) =>
        /\ NoStageComplete'
        /\ processed_files' = << >>
        /\ standardized_files' = << >>
        /\ uploaded_files' = << >>
        /\ uploaded_file_names' = resume_uploader'

\* C6 (amended): Standardize runs only after Parse has completed and Store
\* only after Standardize has completed, for the files recorded in the
\* session; changing the uploader to a non-empty list whose sorted names
\* differ from the recorded ones resets all stage completion and empties the
\* per-stage lists.  Emptying the uploader resets nothing.
C6_StageOrdering == []C6_Ordering /\ [][C6_ResetStep]_vars

\* C6 witness: after Parse and Standardize had run, a different list of files
\* was uploaded and the session is back at its start.
C6_Witness ==
    /\ pc = "idle"
    /\ resume_uploader # << >>
    /\ uploaded_file_names = resume_uploader
    /\ standardized_dir # << >>
    /\ run = NoRun
    /\ NoStageComplete
    /\ processed_files = << >>
    /\ standardized_files = << >>

\* The standardized artifact of a stem was staged before the given time.
StagedBefore(stem, t) ==
    stem \in DOMAIN standardized_dir /\ standardized_dir[stem].timestamp < t

Last(s) == s[Len(s)]

\* C8: a per-item failure (unsupported type, extraction error or no content,
\* empty content, LLM call error, malformed response, store error) does not
\* leave the stage function: the only exceptions that ever do are raised by
\* the constructors ResumeParser() and ResumeStandardizer(); the loop goes on
\* to the next item, every item of the input is attempted, and the stage ends
\* with its completion flag set.
C8_FailureIsolation ==
    /\ run["parse"] = "raised" =>
          parse_out # << >> /\ Last(parse_out) = "init_error"
    /\ \A i \in DOMAIN parse_out :
          parse_out[i] = "init_error" =>
              i = Len(parse_out) /\ run["parse"] = "raised"
    /\ run["standardize"] = "raised" => std_out = << >>
    /\ run["store"] # "raised"
    /\ pc = "parse" => Len(parse_out) = idx - 1
    /\ pc \in { "standardize", "await_llm" } => Len(std_out) = idx - 1
    /\ pc = "store" => Len(store_out) = idx - 1
    /\ run["parse"] = "done" =>
          /\ Len(parse_out) = Len(files_to_process)
          /\ processing_complete
    /\ (run["standardize"] = "done" /\ run_at["parse"] < run_at["standardize"]) =>
          /\ Len(std_out) = Len(files_to_standardize)
          /\ standardizing_complete
    /\ ( /\ run["store"] = "done"
         /\ run_at["parse"] < run_at["store"]
         /\ run_at["standardize"] < run_at["store"] ) =>
          /\ Len(store_out) = Len(standardized_files)
          /\ db_upload_complete

\* C8 witness: the three stages have completed over a batch in which the
\* first input was skipped at Parse, the first item failed Standardize and
\* the store failed for the item left; the later items were processed.
C8_Witness ==
    /\ AllStagesDone
    /\ processing_complete /\ standardizing_complete /\ db_upload_complete
    /\ Len(parse_out) = 3
    /\ parse_out[1] # "ok" /\ parse_out[2] = "ok" /\ parse_out[3] = "ok"
    /\ Len(std_out) = 2
    /\ std_out[1] \in { "malformed", "llm_error", "empty" }
    /\ std_out[2] = "ok"
    /\ store_out = << "error" >>

\* The standardize run whose outcomes std_out holds has returned and no parse
\* run has been started since.
StdStageEnded ==
    /\ pc = "idle"
    /\ run["standardize"] = "done"
    /\ run_at["parse"] < run_at["standardize"]

\* C9 (as claimed): at the end of the standardize stage, an item whose LLM
\* response did not parse as JSON after sanitization has no standardized
\* artifact, is not in standardized_files, and its diagnostic artifact
\* <stem>_raw.md holds a response that does not parse.
C9_MalformedHandling ==
    StdStageEnded =>
        \A k \in DOMAIN std_out :
            std_out[k] = "malformed" =>
                /\ k \notin Range(standardized_src)
                /\ files_to_standardize[k] \notin DOMAIN standardized_dir
                /\ files_to_standardize[k] \notin Range(standardized_files)
                /\ files_to_standardize[k] \in DOMAIN raw_logs
                /\ ~ValidJson(raw_logs[files_to_standardize[k]])

\* C10 (as claimed): no stage function lets an exception escape; a stage
\* whose collaborator could not be constructed has processed and staged no
\* item of the batch and its completion flag is false.
C10_InitFailureAborts ==
    /\ \A s \in Stages : run[s] # "raised"
    /\ (\E i \in DOMAIN parse_out : parse_out[i] = "init_error") =>
          /\ parse_out = << "init_error" >>
          /\ processed_files = << >>
          /\ ~processing_complete
    /\ run["standardize"] = "init_error" =>
          /\ std_out = << >>
          /\ standardized_files = << >>
          /\ ~standardizing_complete
    /\ run["store"] = "init_error" =>
          /\ store_out = << >>
          /\ ~db_upload_complete

Count(s, S) == Cardinality({ i \in DOMAIN s : s[i] \in S })

\* The store run whose outcomes store_out holds has returned, and neither a
\* standardize run nor a parse run has been started since.
StoreStageEnded ==
    /\ pc = "idle"
    /\ run["store"] = "done"
    /\ run_at["parse"] < run_at["store"]
    /\ run_at["standardize"] < run_at["store"]

\* C11 (as claimed): when a stage run that entered its loop is over, every
\* item of its input has exactly one outcome, success (listed in the stage's
\* list) or a failure reported with the file name and a reason, and the
\* successes and reported failures add up to the items of the input.
C11_NoSilentDrop ==
    /\ (pc = "idle" /\ run["parse"] \in { "done", "raised" }) =>
          /\ Len(parse_out) = Len(files_to_process)
          /\ \A i \in DOMAIN parse_out :
                parse_out[i] \in { "ok", "unsupported", "no_content", "error" }
          /\ Count(parse_out, { "ok" }) = Len(processed_files)
    /\ StdStageEnded =>
          /\ Len(std_out) = Len(files_to_standardize)
          /\ Count(std_out, { "ok", "cached" }) = Len(standardized_files)
    /\ StoreStageEnded =>
          Len(store_out) = Len(standardized_files)

\* One item of the store loop: a successful upsert writes the staged record
\* under its key and touches no other document, a failed one leaves the
\* collection as it was, and either way the loop stays in the stage; the
\* stage is left only past the last item.
C12_StoreStep ==
    /\ (pc = "store" /\ idx' = idx + 1) =>
          /\ pc' = "store"
          /\ standardized_files' = standardized_files
          /\ Len(store_out') = idx
          /\ IF store_out'[idx] = "ok"
             THEN /\ Staged(standardized_files[idx])
                  /\ db' = Put(db, UpsertKey(standardized_dir[standardized_files[idx]]),
                               standardized_dir[standardized_files[idx]])
             ELSE db' = db
    /\ (pc = "store" /\ pc' # "store") =>
          /\ idx > Len(standardized_files)
          /\ db' = db

Increasing(s) == \A i, j \in DOMAIN s : i < j => s[i] < s[j]

\* s can be obtained from t by deleting entries.
RECURSIVE IsSubseq(_, _)
IsSubseq(s, t) ==
    IF s = << >> THEN TRUE
    ELSE IF t = << >> THEN FALSE
    ELSE IF Head(s) = Head(t) THEN IsSubseq(Tail(s), Tail(t))
    ELSE IsSubseq(s, Tail(t))

\* One LLM call at a time, awaited before the next item is touched, and the
\* parse and standardize lists in the order of the inputs they came from.
SequentialStandardize ==
    /\ inflight \in { 0, 1 }
    /\ inflight = 1 <=> pc = "await_llm"
    /\ pc = "await_llm" =>
          /\ idx \in llm_calls
          /\ Len(std_out) = idx - 1
          /\ \A k \in llm_calls : k <= idx
    /\ ProcessedSrcOk /\ Increasing(processed_src)
    /\ StandardizedSrcOk /\ Increasing(standardized_src)

\* C13 (as claimed): processing is sequential and in input order, so the
\* succeeded list of every stage, the store stage's uploaded_files included,
\* is a subsequence of the list the stage was given.
C13_Sequential ==
    /\ SequentialStandardize
    /\ (pc = "store" \/ StoreStageEnded) =>
          IsSubseq(uploaded_files, standardized_files)

\* C14 (as claimed): an input rejected for its extension has consumed
\* nothing: no copy of it is in temp_dir, no staged artifact carries its
\* name, and parse_resume was not called for it.
C14_RejectionConsumesNothing ==
    \A i \in DOMAIN parse_out :
        parse_out[i] = "unsupported" =>
            /\ files_to_process[i] \notin temp_files
            /\ \A s \in DOMAIN parsed_dir :
                  parsed_dir[s].original_filename # files_to_process[i]
            /\ i \notin parser_calls

\* C15 (as claimed): every record counted as parsed, the entries of
\* processed_files and the artifacts of the parsed staging directory, has
\* non-empty content.
C15_ParsedContentNonEmpty ==
    /\ \A s \in DOMAIN parsed_dir : parsed_dir[s].content # << >>
    /\ \A k \in DOMAIN processed_files :
          /\ processed_files[k] \in DOMAIN parsed_dir
          /\ parsed_dir[processed_files[k]].content # << >>

StdFailures == { "empty", "llm_error", "malformed" }

\* C16: a standardized artifact <stem>.json exists only if an LLM response
\* for the parsed record of that stem was cleaned and parsed as JSON: the
\* artifact holds the cleaned text of the logged response, which is valid
\* JSON; nothing is written while the response is awaited; and an item that
\* failed or had empty content wrote no artifact (one found under its stem
\* was written by a later item of the same run that succeeded).
C16_ArtifactImpliesSuccess ==
    /\ \A s \in DOMAIN standardized_dir :
          /\ s \in DOMAIN parsed_dir
          /\ s \in DOMAIN raw_logs
          /\ ValidJson(raw_logs[s])
          /\ standardized_dir[s].json = clean_llm_response(raw_logs[s])
          /\ standardized_dir[s].source_file = s
    /\ pc = "await_llm" =>
          files_to_standardize[idx] \notin DOMAIN standardized_dir
    /\ \A k \in DOMAIN std_out :
          (std_out[k] \in StdFailures
             /\ files_to_standardize[k] \in DOMAIN standardized_dir) =>
                \E j \in DOMAIN std_out :
                    /\ j > k
                    /\ std_out[j] = "ok"
                    /\ files_to_standardize[j] = files_to_standardize[k]

\* C16 witness: a standardize run over two items with different stems has
\* returned; the first failed and has no artifact, the second succeeded and
\* has one.
C16_Witness ==
    /\ StdStageEnded
    /\ Len(std_out) = 2
    /\ std_out[1] \in StdFailures
    /\ std_out[2] = "ok"
    /\ files_to_standardize[1] # files_to_standardize[2]
    /\ files_to_standardize[1] \notin DOMAIN standardized_dir
    /\ files_to_standardize[2] \in DOMAIN standardized_dir

\* C17 (as claimed): once a store run has returned, uploaded_files holds each
\* stored item of the current standardized batch exactly once, so the count
\* shown as "Uploaded N files" is the number of items the run stored and
\* never exceeds the number of standardized files.
C17_StoreAccounting ==
    StoreStageEnded =>
        /\ Len(uploaded_files) = Count(store_out, { "ok" })
        /\ Len(uploaded_files) <= Len(standardized_files)
        /\ IsSubseq(uploaded_files, standardized_files)

\* C18 (as claimed): the completion flags are ordered in every state:
\* db_upload_complete implies standardizing_complete, which implies
\* processing_complete.
C18_FlagsOrdered ==
    /\ db_upload_complete => standardizing_complete
    /\ standardizing_complete => processing_complete

\* C19 (as claimed): the per-stage lists are nested in every state: every
\* entry of standardized_files is the counterpart of an entry of
\* processed_files, and every entry of uploaded_files names an entry of
\* standardized_files.
C19_ListsNested ==
    /\ Range(standardized_files) \subseteq Range(processed_files)
    /\ Range(uploaded_files) \subseteq Range(standardized_files)

\* The input that entry k of processed_files was parsed from.
InputOf(k) == files_to_process[processed_src[k]]

\* C20 (as claimed): every entry of processed_files refers to a parsed
\* artifact that is the record of the input it was parsed from, also when
\* two inputs share a stem, and the standardized record listed for an item
\* of a standardize run is derived from the parsed record of that item's
\* own input.
C20_ArtifactsOwnInput ==
    /\ \A k \in DOMAIN processed_src :
          /\ processed_files[k] \in DOMAIN parsed_dir
          /\ parsed_dir[processed_files[k]].original_filename = InputOf(k)
    /\ (StdRunCurrent /\ run_at["parse"] < run_at["standardize"]) =>
          \A j \in DOMAIN standardized_src :
              /\ standardized_src[j] \in DOMAIN processed_src
              /\ standardized_files[j] \in DOMAIN standardized_dir
              /\ standardized_dir[standardized_files[j]].original_filename
                    = InputOf(standardized_src[j])

\* C21 (as claimed): whenever the Database Management page displays the
\* "All Resumes" list, the list is what find with the empty query returns
\* from the store at that time.
C21_ViewShowsStore ==
    (page = "Database Management" /\ results # << >>) =>
        results[1] = find(db)

====
